---- MODULE Spec2Model ----
(***************************************************************************)
(* The live-update core of the sliding-sync gateway:                       *)
(*   - sync3 Dispatcher (src/unnamed/part_000): the user -> Receiver       *)
(*     registry, the event / ephemeral / receipt / invalidation dispatch   *)
(*     paths, driven by one poller thread and one registering client;      *)
(*   - the JoinedRoomsTracker the Dispatcher calls (its code is not in     *)
(*     src/; it is modelled from section 4.1 of the specification);        *)
(*   - synclive SliceRanges (src/synclive/range.go): Valid, Delta and      *)
(*     SliceInto.                                                          *)
(***************************************************************************)
EXTENDS Integers, Sequences, FiniteSets, TLC

\* ------------------------------------------------------------------ bounds
\* longest state block handed to OnNewInitialRoomState
MaxState == 2
\* longest range collection handed to Delta / SliceInto
MaxRanges == 2
\* largest index used in a range
MaxIdx == 3
\* longest sequence handed to SliceInto
MaxLen == 3

\* --------------------------------------------------------------- universe
DispatcherAllUsers == "-"

RealUsers == {"@u", "@v"}

\* every key of the registry and every state key of a membership event
Users == RealUsers \cup {DispatcherAllUsers}

TheRoom == "!r"

Rooms == {TheRoom}

\* the nil Receiver interface value (a map miss)
NoReceiver == [owner |-> "", tag |-> "nil"]

\* The receivers the gateway builds: the GlobalCache goes under the sentinel,
\* the UserCache of user u under u; tag tells two objects of one owner apart.
\* Only "@u" is given a second receiver object, to tell a re-registration from
\* the receiver it replaces.
ReceiversOf(userID) ==
  {[owner |-> userID, tag |-> g] : g \in (IF userID = "@u" THEN {"a", "b"} ELSE {"a"})}

\* what a receiver's OnRegistered hook does: return nil, return an error, or
\* call back into the Dispatcher (Register / Unregister / ReceiverForUser)
HookOutcomes == {"nil", "hookErr", "reenter"}

Memberships == {"invite", "join", "leave", "ban", "knock"}

Message == [type |-> "m.room.message", hasKey |-> FALSE, stateKey |-> "", membership |-> ""]

Member(u, m) == [type |-> "m.room.member", hasKey |-> TRUE, stateKey |-> u, membership |-> m]

\* a membership-typed event that is not a state event (StateKey == nil)
KeylessMember == [type |-> "m.room.member", hasKey |-> FALSE, stateKey |-> "", membership |-> "join"]

\* the events fed to OnNewEvent; the sentinel is a possible state key
Events ==
  {Message, KeylessMember}
    \cup {Member(u, m) : u \in RealUsers, m \in Memberships}
    \cup {Member(DispatcherAllUsers, m) : m \in {"join", "leave"}}

\* the events of an initial state block
StateEvents == {Message, Member("@u", "invite"), Member("@u", "leave"), Member("@v", "join")}

RECURSIVE SeqsUpTo(_, _)
SeqsUpTo(S, n) ==
  IF n = 0 THEN {<<>>}
  ELSE LET shorter == SeqsUpTo(S, n - 1)
       IN shorter \cup {Append(s, x) : s \in {t \in shorter : Len(t) = n - 1}, x \in S}

\* every order in which a Go map with key set S can be ranged over
RECURSIVE PermSeqs(_)
PermSeqs(S) ==
  IF S = {} THEN {<<>>}
  ELSE UNION {{<<x>> \o p : p \in PermSeqs(S \ {x})} : x \in S}

SeqToSet(s) == {s[i] : i \in 1..Len(s)}

VARIABLES
  userToReceiver,    \* Dispatcher.userToReceiver
  userToReceiverMu,  \* who holds the RWMutex exclusively: "free" or "client"
  jrt,               \* Dispatcher.jrt: [joined, invited : Rooms -> SUBSET Users]
  pc,                \* the poller thread's position
  loc,               \* the poller thread's running call: arguments and locals
  calls,             \* the Receiver callbacks of the poller's current dispatch, in order
  cpc,               \* the client thread's position
  creq,              \* the client thread's last call: arguments
  cret,              \* the client thread's last call: returned error
  rng                \* the range engine: last operation, inputs and outputs

vars == <<userToReceiver, userToReceiverMu, jrt, pc, loc, calls, cpc, creq, cret, rng>>

dispVars == <<userToReceiver, userToReceiverMu, jrt, pc, loc, calls, cpc, creq, cret>>

\* ------------------------------------------------- JoinedRoomsTracker (4.1)
NewJoinedRoomsTracker == [joined |-> [r \in Rooms |-> {}], invited |-> [r \in Rooms |-> {}]]

IsUserJoined(t, userID, roomID) == userID \in t.joined[roomID]

\* transitions every user of userIDs to Joined
UsersJoinedRoom(t, userIDs, roomID) ==
  [t EXCEPT !.joined[roomID] = @ \cup userIDs, !.invited[roomID] = @ \ userIDs]

\* whether any of the users is newly joined
UsersJoinedRoomResult(t, userIDs, roomID) == \E u \in userIDs : u \notin t.joined[roomID]

UserJoinedRoom(t, userID, roomID) == UsersJoinedRoom(t, {userID}, roomID)

\* true iff the user was not already Joined immediately before
UserJoinedRoomResult(t, userID, roomID) == userID \notin t.joined[roomID]

UserLeftRoom(t, userID, roomID) ==
  [t EXCEPT !.joined[roomID] = @ \ {userID}, !.invited[roomID] = @ \ {userID}]

\* transitions every user of userIDs to Invited
UsersInvitedToRoom(t, userIDs, roomID) ==
  [t EXCEPT !.invited[roomID] = @ \cup userIDs, !.joined[roomID] = @ \ userIDs]

NumInvitedUsersForRoom(t, roomID) == Cardinality(t.invited[roomID])

\* the joined users a filter is asked about, and the full joined count
JoinedUsersForRoom(t, roomID) ==
  [users |-> t.joined[roomID], joinCount |-> Cardinality(t.joined[roomID])]

ReloadMembershipsForRoom(t, roomID, joined, invited) ==
  [t EXCEPT !.joined[roomID] = joined, !.invited[roomID] = invited]

\* ------------------------------------------------------------- EventData
NewEventData(event, roomID, nid) ==
  [EventType |-> event.type, hasKey |-> event.hasKey, StateKey |-> event.stateKey,
   membership |-> event.membership, RoomID |-> roomID, NID |-> nid,
   JoinCount |-> 0, InviteCount |-> 0, ForceInitial |-> FALSE]

\* the payload slot of a callback that carries no EventData
NoEventData == NewEventData([type |-> "", hasKey |-> FALSE, stateKey |-> "", membership |-> ""], "", 0)

\* One Receiver callback. fn is the method; slot is the call site ("global",
\* "user", "fallback"); shared tells whether the receiver was handed the
\* dispatch's own *EventData (TRUE) or a per-recipient copy (FALSE).
Call(r, fn, slot, ed, shared) == [recv |-> r, fn |-> fn, slot |-> slot, ed |-> ed, shared |-> shared]

\* ------------------------------------------------------------ poller frame
NoLoc ==
  [op |-> "", path |-> "", ed |-> NoEventData, userIDs |-> <<>>, pending |-> {},
   targetUser |-> "", membership |-> "", shouldForceInitial |-> FALSE,
   state |-> <<>>, todo |-> <<>>, receiver |-> NoReceiver,
   joins |-> {}, invites |-> {}, leaves |-> {},
   joinCount |-> 0, inviteCount |-> 0,
   pre |-> NewJoinedRoomsTracker, entry |-> NewJoinedRoomsTracker, why |-> ""]

NoReq == [op |-> "", userID |-> "", r |-> NoReceiver, hook |-> ""]

NoRng == [op |-> "", r |-> <<>>, next |-> <<>>, n |-> 0, valid |-> FALSE, added |-> <<>>,
          removed |-> <<>>, same |-> <<>>, result |-> <<>>]

\* Startup: the joined members loaded before the pollers start
Startup(t, roomToJoinedUsers) == [t EXCEPT !.joined = roomToJoinedUsers]

\* NewDispatcher, then Startup
Init ==
  /\ userToReceiver = [u \in Users |-> NoReceiver]
  /\ userToReceiverMu = "free"
  /\ \E roomToJoinedUsers \in [Rooms -> SUBSET RealUsers] :
       jrt = Startup(NewJoinedRoomsTracker, roomToJoinedUsers)
  /\ pc = "idle"
  /\ loc = NoLoc
  /\ calls = <<>>
  /\ cpc = "idle"
  /\ creq = NoReq
  /\ cret = ""
  /\ rng = NoRng

\* a Go panic or runtime fatal error ends the process
Running == pc # "panicked"

\* A finished call's return is a local step of its thread: it is taken before
\* the other thread moves on.
PollerQuiet == pc # "done"

ClientQuiet == cpc # "returned"

\* --------------------------------------------------- Register / Unregister
ReceiverForUser(userID) == userToReceiver[userID]

\* the error Register hands back: line 70
RegisterReturn(hook) == hook

\* a Register that undoes the installation when the hook fails
RegisterStore_Rollback(reg, userID, r, hook) ==
  IF hook = "hookErr" THEN reg ELSE [reg EXCEPT ![userID] = r]

\* the registry Register leaves behind: line 69, with nothing undone when the
\* hook fails
RegisterStore(reg, userID, r, hook) == [reg EXCEPT ![userID] = r]

\* the registry Unregister leaves behind: line 60
UnregisterStore(reg, userID) == [reg EXCEPT ![userID] = NoReceiver]

\* the client may start a call
ClientIdle == Running /\ PollerQuiet /\ cpc = "idle" /\ userToReceiverMu = "free"

\* Register with a hook that returns, its critical section as one step
Register ==
  /\ ClientIdle
  /\ \E userID \in Users, hook \in {"nil", "hookErr"} :
       \E r \in ReceiversOf(userID) :
         userToReceiver' = RegisterStore(userToReceiver, userID, r, hook)
  /\ UNCHANGED <<userToReceiverMu, jrt, pc, loc, calls, cpc, creq, cret, rng>>

\* Unregister, its critical section as one step
Unregister ==
  /\ ClientIdle
  /\ \E userID \in Users : userToReceiver' = UnregisterStore(userToReceiver, userID)
  /\ UNCHANGED <<userToReceiverMu, jrt, pc, loc, calls, cpc, creq, cret, rng>>

\* Register, line 64: take the exclusive lock
RegisterLock ==
  /\ ClientIdle
  /\ \E userID \in Users, hook \in HookOutcomes :
       \E r \in ReceiversOf(userID) :
         creq' = [op |-> "Register", userID |-> userID, r |-> r, hook |-> hook]
  /\ userToReceiverMu' = "client"
  /\ cpc' = "Register"
  /\ cret' = ""
  /\ UNCHANGED <<userToReceiver, jrt, pc, loc, calls, rng>>

\* a Register that gives the lock up before it runs the hook
RegisterBody_UnlockBeforeHook ==
  /\ Running /\ cpc = "Register"
  /\ userToReceiver' = RegisterStore(userToReceiver, creq.userID, creq.r, creq.hook)
  /\ cpc' = "returned"
  /\ cret' = RegisterReturn(creq.hook)
  /\ userToReceiverMu' = "free"
  /\ UNCHANGED <<jrt, pc, loc, calls, creq, rng>>

\* Register, lines 66-70 and the deferred unlock: install, run the hook under
\* the lock, return its error. A hook that re-enters the Dispatcher waits for
\* the lock its own caller holds.
RegisterBody ==
  /\ Running /\ cpc = "Register"
  /\ userToReceiver' = RegisterStore(userToReceiver, creq.userID, creq.r, creq.hook)
  /\ IF creq.hook = "reenter"
       THEN /\ cpc' = "blocked"
            /\ UNCHANGED <<userToReceiverMu, cret>>
       ELSE /\ cpc' = "returned"
            /\ cret' = RegisterReturn(creq.hook)
            /\ userToReceiverMu' = "free"
  /\ UNCHANGED <<jrt, pc, loc, calls, creq, rng>>

\* Unregister, line 58
UnregisterLock ==
  /\ ClientIdle
  /\ \E userID \in Users :
       creq' = [op |-> "Unregister", userID |-> userID, r |-> NoReceiver, hook |-> ""]
  /\ userToReceiverMu' = "client"
  /\ cpc' = "Unregister"
  /\ cret' = ""
  /\ UNCHANGED <<userToReceiver, jrt, pc, loc, calls, rng>>

\* Unregister, line 60 and the deferred unlock
UnregisterBody ==
  /\ Running /\ cpc = "Unregister"
  /\ userToReceiver' = UnregisterStore(userToReceiver, creq.userID)
  /\ cpc' = "returned"
  /\ userToReceiverMu' = "free"
  /\ UNCHANGED <<jrt, pc, loc, calls, creq, cret, rng>>

\* the client's call has returned to its caller
ClientReturn ==
  /\ Running /\ cpc = "returned"
  /\ cpc' = "idle"
  /\ creq' = NoReq
  /\ cret' = ""
  /\ UNCHANGED <<userToReceiver, userToReceiverMu, jrt, pc, loc, calls, rng>>

\* a poller step that touches nothing of the client or the registry
PollerFrame == UNCHANGED <<userToReceiver, userToReceiverMu, cpc, creq, cret, rng>>

\* the poller may start a call
PollerIdle == Running /\ ClientQuiet /\ pc = "idle"

\* the poller may take the read lock
MayRLock == Running /\ ClientQuiet /\ userToReceiverMu = "free"

\* ------------------------------------------------------------- OnNewEvent
IsMembership(ed) == ed.EventType = "m.room.member" /\ ed.hasKey

\* an OnNewEvent whose switch lacks the ban case
ApplyMembership_NoBan(t, membership, targetUser, roomID) ==
  CASE membership = "invite" -> UsersInvitedToRoom(t, {targetUser}, roomID)
    [] membership = "join" -> UserJoinedRoom(t, targetUser, roomID)
    [] membership = "leave" -> UserLeftRoom(t, targetUser, roomID)
    [] OTHER -> t

\* OnNewEvent, lines 141-153: the tracker call each membership value makes
ApplyMembership(t, membership, targetUser, roomID) ==
  CASE membership = "invite" -> UsersInvitedToRoom(t, {targetUser}, roomID)
    [] membership = "join" -> UserJoinedRoom(t, targetUser, roomID)
    [] membership \in {"ban", "leave"} -> UserLeftRoom(t, targetUser, roomID)
    [] OTHER -> t

\* an OnNewEvent that forces a bootstrap on every join event
ShouldForceInitial_EveryJoin(t, membership, targetUser, roomID) == membership = "join"

\* OnNewEvent, lines 145-148
ShouldForceInitial(t, membership, targetUser, roomID) ==
  membership = "join" /\ UserJoinedRoomResult(t, targetUser, roomID)

\* an OnNewEvent that takes the join count before it applies the membership change
UpdateTracker_CountBefore(t, event, roomID, nid) ==
  LET ed == NewEventData(event, roomID, nid)
      isM == IsMembership(ed)
      targetUser == IF isM THEN ed.StateKey ELSE ""
      membership == IF isM THEN ed.membership ELSE ""
      t2 == IF isM THEN ApplyMembership(t, membership, targetUser, roomID) ELSE t
      ju == JoinedUsersForRoom(t2, roomID)
  IN [jrt |-> t2,
      targetUser |-> targetUser,
      membership |-> membership,
      shouldForceInitial |-> isM /\ ShouldForceInitial(t, membership, targetUser, roomID),
      ed |-> [ed EXCEPT !.InviteCount = IF isM THEN NumInvitedUsersForRoom(t2, roomID) ELSE 0,
                        !.JoinCount = JoinedUsersForRoom(t, roomID).joinCount],
      users |-> ju.users]

\* OnNewEvent, lines 132-164 without the audience filter: the tracker update,
\* the counts put on the EventData and the joined users to ask the filter about
UpdateTracker(t, event, roomID, nid) ==
  LET ed == NewEventData(event, roomID, nid)
      isM == IsMembership(ed)
      targetUser == IF isM THEN ed.StateKey ELSE ""
      membership == IF isM THEN ed.membership ELSE ""
      t2 == IF isM THEN ApplyMembership(t, membership, targetUser, roomID) ELSE t
      ju == JoinedUsersForRoom(t2, roomID)
  IN [jrt |-> t2,
      targetUser |-> targetUser,
      membership |-> membership,
      shouldForceInitial |-> isM /\ ShouldForceInitial(t, membership, targetUser, roomID),
      ed |-> [ed EXCEPT !.InviteCount = IF isM THEN NumInvitedUsersForRoom(t2, roomID) ELSE 0,
                        !.JoinCount = ju.joinCount],
      users |-> ju.users]

\* the filter of lines 158-163 answers false for the sentinel without a lookup
ToAsk(users) == users \ {DispatcherAllUsers}

\* where a call goes once its audience is known
AfterFilter(f) ==
  CASE f.op = "OnNewEvent" -> "notify"
    [] f.op = "OnNewInitialRoomState" /\ f.path = "degrade" -> "notify"
    [] f.op = "OnNewInitialRoomState" /\ f.path = "bulk" ->
         IF f.todo = <<>> THEN "done" ELSE "bulk_notify"
    [] OTHER -> "deliver"

\* the start of one OnNewEvent call, made by the poller or by the degraded
\* initial-state loop
BeginOnNewEvent(event, nid, frame) ==
  LET up == UpdateTracker(jrt, event, TheRoom, nid)
      f == [frame EXCEPT !.ed = up.ed, !.targetUser = up.targetUser,
                         !.membership = up.membership,
                         !.shouldForceInitial = up.shouldForceInitial,
                         !.userIDs = <<>>, !.pending = ToAsk(up.users),
                         !.pre = jrt]
  IN /\ jrt' = up.jrt
     /\ loc' = f
     /\ pc' = IF f.pending = {} THEN AfterFilter(f) ELSE "filter"

OnNewEvent ==
  /\ PollerIdle
  /\ calls' = <<>>
  /\ \E event \in Events : BeginOnNewEvent(event, 1, [NoLoc EXCEPT !.op = "OnNewEvent"])
  /\ PollerFrame

\* One call of the audience filter, lines 158-163 (and 114-119, 169-174,
\* 196-201): ReceiverForUser under the read lock, for one joined user.
Filter ==
  /\ MayRLock /\ pc = "filter"
  /\ \E userID \in loc.pending :
       LET keep == ReceiverForUser(userID) # NoReceiver
           f == [loc EXCEPT !.pending = @ \ {userID},
                            !.userIDs = IF keep THEN Append(@, userID) ELSE @]
       IN /\ loc' = f
          /\ pc' = IF f.pending = {} THEN AfterFilter(f) ELSE "filter"
  /\ UNCHANGED <<jrt, calls>>
  /\ PollerFrame

\* ---------------------------------------------------------- notifyListeners
\* lines 229-232 (180-183, 207-210)
GlobalCalls(reg, fn, ed) ==
  IF reg[DispatcherAllUsers] # NoReceiver
    THEN <<Call(reg[DispatcherAllUsers], fn, "global", ed, TRUE)>>
    ELSE <<>>

\* lines 239-245: the per-recipient copy
CopyFor(ed, userID, targetUser, shouldForceInitial) ==
  IF targetUser = userID /\ shouldForceInitial THEN [ed EXCEPT !.ForceInitial = TRUE] ELSE ed

\* a delivery loop that trusts the audience and does not look the receiver up again
UserCalls_NoRecheck(reg, ed, userIDs, targetUser, shouldForceInitial) ==
  [i \in 1..Len(userIDs) |->
     Call(reg[userIDs[i]], "OnNewEvent", "user",
          CopyFor(ed, userIDs[i], targetUser, shouldForceInitial), FALSE)]

\* lines 236-248
UserCalls(reg, ed, userIDs, targetUser, shouldForceInitial) ==
  LET live == SelectSeq(userIDs, LAMBDA u : reg[u] # NoReceiver)
  IN [i \in 1..Len(live) |->
        Call(reg[live[i]], "OnNewEvent", "user",
             CopyFor(ed, live[i], targetUser, shouldForceInitial), FALSE)]

\* a loop that never records that it reached the target
NotifiedTarget_Never(reg, userIDs, targetUser) == FALSE

\* lines 235-247: notifiedTarget after the loop
NotifiedTarget(reg, userIDs, targetUser) ==
  \E i \in 1..Len(userIDs) : userIDs[i] = targetUser /\ reg[targetUser] # NoReceiver

\* a fallback that is not suppressed for invites
TakesFallback_Invites(reg, userIDs, targetUser, membership) ==
  targetUser # "" /\ ~NotifiedTarget(reg, userIDs, targetUser)

\* lines 249 and 254: whether the fallback branch is entered
TakesFallback(reg, userIDs, targetUser, membership) ==
  /\ targetUser # ""
  /\ ~NotifiedTarget(reg, userIDs, targetUser)
  /\ membership # "invite"

\* lines 255-257: the dispatch's own EventData after the call
EdAfter(reg, ed, userIDs, targetUser, shouldForceInitial, membership) ==
  IF TakesFallback(reg, userIDs, targetUser, membership) /\ shouldForceInitial
    THEN [ed EXCEPT !.ForceInitial = TRUE]
    ELSE ed

\* lines 258-261
FallbackCalls(reg, ed, userIDs, targetUser, shouldForceInitial, membership) ==
  IF TakesFallback(reg, userIDs, targetUser, membership) /\ reg[targetUser] # NoReceiver
    THEN <<Call(reg[targetUser], "OnNewEvent", "fallback",
                EdAfter(reg, ed, userIDs, targetUser, shouldForceInitial, membership), TRUE)>>
    ELSE <<>>

\* a notifyListeners that pokes the user caches before the global cache
notifyListeners_UsersFirst(reg, ed, userIDs, targetUser, shouldForceInitial, membership) ==
  UserCalls(reg, ed, userIDs, targetUser, shouldForceInitial)
    \o GlobalCalls(reg, "OnNewEvent", ed)
    \o FallbackCalls(reg, ed, userIDs, targetUser, shouldForceInitial, membership)

\* the callbacks of one notifyListeners call, in order
notifyListeners(reg, ed, userIDs, targetUser, shouldForceInitial, membership) ==
  GlobalCalls(reg, "OnNewEvent", ed)
    \o UserCalls(reg, ed, userIDs, targetUser, shouldForceInitial)
    \o FallbackCalls(reg, ed, userIDs, targetUser, shouldForceInitial, membership)

\* OnNewEvent, line 165: notifyListeners runs under the read lock
Notify ==
  /\ MayRLock /\ pc = "notify"
  /\ calls' = notifyListeners(userToReceiver, loc.ed, loc.userIDs, loc.targetUser,
                              loc.shouldForceInitial, loc.membership)
  /\ loc' = [loc EXCEPT !.ed = EdAfter(userToReceiver, loc.ed, loc.userIDs, loc.targetUser,
                                       loc.shouldForceInitial, loc.membership)]
  /\ pc' = IF loc.path = "degrade" /\ loc.todo # <<>> THEN "degrade" ELSE "done"
  /\ UNCHANGED jrt
  /\ PollerFrame

\* the poller's call has returned to its caller
Return ==
  /\ pc = "done"
  /\ pc' = "idle"
  /\ loc' = NoLoc
  /\ calls' = <<>>
  /\ UNCHANGED jrt
  /\ PollerFrame

\* ------------------------------------------------- OnNewInitialRoomState
\* lines 94-107: the users a state block names with the given membership
BlockUsers(state, membership) ==
  {state[i].stateKey : i \in {j \in 1..Len(state) :
      /\ state[j].type = "m.room.member" /\ state[j].hasKey
      /\ state[j].membership = membership}}

\* a bulk update that records the joined users only
BulkUpdate_JoinsOnly(t, state, roomID) == UsersJoinedRoom(t, BlockUsers(state, "join"), roomID)

\* lines 109-110: the bulk update of the tracker
BulkUpdate(t, state, roomID) ==
  UsersInvitedToRoom(UsersJoinedRoom(t, BlockUsers(state, "join"), roomID),
                     BlockUsers(state, "invite"), roomID)

\* lines 83-119: the sanity check, then either the degraded loop or the bulk
\* update and the start of the audience filter
OnNewInitialRoomState ==
  /\ PollerIdle
  /\ calls' = <<>>
  /\ \E state \in SeqsUpTo(StateEvents, MaxState) :
       IF JoinedUsersForRoom(jrt, TheRoom).joinCount > 0
         THEN /\ loc' = [NoLoc EXCEPT !.op = "OnNewInitialRoomState", !.path = "degrade",
                                      !.state = state, !.todo = state, !.pre = jrt,
                                      !.entry = jrt]
              /\ pc' = IF state = <<>> THEN "done" ELSE "degrade"
              /\ UNCHANGED jrt
         ELSE LET t2 == BulkUpdate(jrt, state, TheRoom)
                  ju == JoinedUsersForRoom(t2, TheRoom)
                  f == [NoLoc EXCEPT
                          !.op = "OnNewInitialRoomState", !.path = "bulk", !.state = state,
                          !.todo = [i \in 1..Len(state) |-> NewEventData(state[i], TheRoom, 0)],
                          !.shouldForceInitial =
                             UsersJoinedRoomResult(jrt, BlockUsers(state, "join"), TheRoom),
                          !.inviteCount = NumInvitedUsersForRoom(t2, TheRoom),
                          !.joinCount = ju.joinCount,
                          !.pending = ToAsk(ju.users), !.pre = jrt,
                          !.entry = jrt]
              IN /\ jrt' = t2
                 /\ loc' = f
                 /\ pc' = IF f.pending = {} THEN AfterFilter(f) ELSE "filter"
  /\ PollerFrame

\* a degraded loop that replays the block from its end
Degrade_LastFirst ==
  /\ Running /\ ClientQuiet /\ pc = "degrade"
  /\ BeginOnNewEvent(loc.todo[Len(loc.todo)], 0,
                     [loc EXCEPT !.todo = SubSeq(@, 1, Len(@) - 1)])
  /\ calls' = <<>>
  /\ PollerFrame

\* lines 87-89: the next event of the block goes through OnNewEvent with nid 0
Degrade ==
  /\ Running /\ ClientQuiet /\ pc = "degrade"
  /\ BeginOnNewEvent(Head(loc.todo), 0, [loc EXCEPT !.todo = Tail(@)])
  /\ calls' = <<>>
  /\ PollerFrame

\* lines 122-126: the next event of the block is dispatched with the counts
BulkNotify ==
  /\ MayRLock /\ pc = "bulk_notify"
  /\ LET ed == [Head(loc.todo) EXCEPT !.InviteCount = loc.inviteCount,
                                      !.JoinCount = loc.joinCount]
     IN /\ calls' = notifyListeners(userToReceiver, ed, loc.userIDs, "",
                                    loc.shouldForceInitial, "")
        /\ loc' = [loc EXCEPT !.ed = ed, !.todo = Tail(@)]
        /\ pc' = IF Tail(loc.todo) = <<>> THEN "done" ELSE "bulk_notify"
  /\ UNCHANGED jrt
  /\ PollerFrame

\* ------------------------------------------ OnEphemeralEvent / OnReceipt
\* lines 169-174 / 196-201: the joined users to ask the filter about
BeginSignal(op) ==
  /\ PollerIdle
  /\ calls' = <<>>
  /\ LET f == [NoLoc EXCEPT !.op = op,
                            !.pending = ToAsk(JoinedUsersForRoom(jrt, TheRoom).users),
                            !.pre = jrt]
     IN /\ loc' = f
        /\ pc' = IF f.pending = {} THEN AfterFilter(f) ELSE "filter"
  /\ UNCHANGED jrt
  /\ PollerFrame

OnEphemeralEvent == BeginSignal("OnEphemeralEvent")

OnReceipt == BeginSignal("OnReceipt")

\* lines 186-192 / 213-219
SignalUserCalls(reg, fn, userIDs) ==
  LET live == SelectSeq(userIDs, LAMBDA u : reg[u] # NoReceiver)
  IN [i \in 1..Len(live) |-> Call(reg[live[i]], fn, "user", NoEventData, FALSE)]

\* lines 179-192 / 206-219: the callbacks of one signal, in order
SignalCalls(reg, fn, userIDs) ==
  GlobalCalls(reg, fn, NoEventData) \o SignalUserCalls(reg, fn, userIDs)

\* lines 176-192 / 203-219, under the read lock
Deliver ==
  /\ MayRLock /\ pc = "deliver"
  /\ calls' = calls \o SignalCalls(userToReceiver, loc.op, loc.userIDs)
  /\ pc' = "done"
  /\ UNCHANGED <<jrt, loc>>
  /\ PollerFrame

\* ------------------------------------------------------- OnInvalidateRoom
\* The invalidation's three maps name each user at most once: the snapshot
\* gives every user one membership.
InvalidateArgs ==
  {a \in [joins : SUBSET RealUsers, invites : SUBSET RealUsers, leaves : SUBSET RealUsers] :
     /\ a.joins \cap a.invites = {}
     /\ a.joins \cap a.leaves = {}
     /\ a.invites \cap a.leaves = {}}

\* line 278: the bare type assertion panics on a nil interface value, so the
\* nil check of line 279 is never reached with a missing global receiver
GlobalAssertionPanics(receiver) == receiver = NoReceiver

\* the frame of an OnInvalidateRoom call that has read the global receiver
InvalidateFrame(a, receiver) ==
  [NoLoc EXCEPT !.op = "OnInvalidateRoom", !.receiver = receiver, !.joins = a.joins,
                !.invites = a.invites, !.leaves = a.leaves, !.pre = jrt,
                !.why = IF GlobalAssertionPanics(receiver)
                          THEN "interface conversion: interface is nil" ELSE ""]

\* an OnInvalidateRoom that reloads the tracker before it looks for the global receiver
OnInvalidateRoom_ReloadFirst ==
  /\ PollerIdle
  /\ \E a \in InvalidateArgs :
       LET receiver == userToReceiver[DispatcherAllUsers]
       IN /\ loc' = InvalidateFrame(a, receiver)
          /\ pc' = IF GlobalAssertionPanics(receiver) THEN "panicked" ELSE "inv_global"
          /\ jrt' = ReloadMembershipsForRoom(jrt, TheRoom, a.joins, a.invites)
  /\ calls' = <<>>
  /\ PollerFrame

\* a Register or Unregister is inside its critical section, its map write pending
RacingWrite == cpc \in {"Register", "Unregister"}

\* Line 277 reads the map with no lock taken. Next to a pending write the read
\* is a data race: it yields the entry before or after the write, or the Go
\* runtime ends the process (TRUE).
UnlockedRead == IF RacingWrite THEN {FALSE, TRUE} ELSE {FALSE}

\* lines 277-282: the registry is read without the lock
OnInvalidateRoom ==
  /\ PollerIdle
  /\ \E a \in InvalidateArgs, fatal \in UnlockedRead :
       LET receiver == userToReceiver[DispatcherAllUsers]
       IN /\ loc' = [InvalidateFrame(a, receiver) EXCEPT
                       !.why = IF fatal THEN "concurrent map read and map write" ELSE @]
          /\ pc' = IF fatal \/ GlobalAssertionPanics(receiver) THEN "panicked" ELSE "inv_global"
  /\ UNCHANGED jrt
  /\ calls' = <<>>
  /\ PollerFrame

\* line 283: the global cache's callback
InvalidateGlobal ==
  /\ Running /\ ClientQuiet /\ pc = "inv_global"
  /\ calls' = <<Call(loc.receiver, "OnInvalidateRoom", "global", NoEventData, FALSE)>>
  /\ pc' = "inv_reload"
  /\ UNCHANGED <<jrt, loc>>
  /\ PollerFrame

\* line 286: the reload of the tracker from the keys of joins and invites
InvalidateReload ==
  /\ Running /\ ClientQuiet /\ pc = "inv_reload"
  /\ jrt' = ReloadMembershipsForRoom(jrt, TheRoom, loc.joins, loc.invites)
  /\ pc' = "inv_notify"
  /\ UNCHANGED <<loc, calls>>
  /\ PollerFrame

\* lines 320-350: one loop over a map, in one of its iteration orders
MapCalls(reg, order, fn, roomID) ==
  LET live == SelectSeq(order, LAMBDA u : reg[u] # NoReceiver)
  IN [i \in 1..Len(live) |->
        Call(reg[live[i]], fn, "user",
             IF fn = "OnNewEvent"
               THEN NewEventData(Member(live[i], "join"), roomID, 0)
               ELSE NoEventData,
             fn = "OnNewEvent")]

\* an invalidation that tells the joined users before the left and invited ones
InvalidateNotify_JoinsFirst ==
  /\ MayRLock /\ pc = "inv_notify"
  /\ \E ol \in PermSeqs(loc.leaves), oi \in PermSeqs(loc.invites), oj \in PermSeqs(loc.joins) :
       calls' = calls \o MapCalls(userToReceiver, oj, "OnNewEvent", TheRoom)
                      \o MapCalls(userToReceiver, ol, "OnLeftRoom", TheRoom)
                      \o MapCalls(userToReceiver, oi, "OnInvite", TheRoom)
  /\ pc' = "done"
  /\ UNCHANGED <<jrt, loc>>
  /\ PollerFrame

\* lines 315-350, under the read lock
InvalidateNotify ==
  /\ MayRLock /\ pc = "inv_notify"
  /\ \E ol \in PermSeqs(loc.leaves), oi \in PermSeqs(loc.invites), oj \in PermSeqs(loc.joins) :
       calls' = calls \o MapCalls(userToReceiver, ol, "OnLeftRoom", TheRoom)
                      \o MapCalls(userToReceiver, oi, "OnInvite", TheRoom)
                      \o MapCalls(userToReceiver, oj, "OnNewEvent", TheRoom)
  /\ pc' = "done"
  /\ UNCHANGED <<jrt, loc>>
  /\ PollerFrame

\* ----------------------------------------------------------------- Next
Next ==
  \/ Register
  \/ Unregister
  \/ OnNewEvent
  \/ OnNewInitialRoomState
  \/ Degrade
  \/ BulkNotify
  \/ OnEphemeralEvent
  \/ OnReceipt
  \/ Filter
  \/ Notify
  \/ Deliver
  \/ OnInvalidateRoom
  \/ InvalidateGlobal
  \/ InvalidateReload
  \/ InvalidateNotify
  \/ Return

Spec == Init /\ [][Next]_vars

\* Register and Unregister with their critical sections split at the lock, and
\* the signal and invalidation paths that read the registry
NextLock ==
  \/ RegisterLock
  \/ RegisterBody
  \/ UnregisterLock
  \/ UnregisterBody
  \/ ClientReturn
  \/ OnEphemeralEvent
  \/ OnReceipt
  \/ Filter
  \/ Deliver
  \/ OnInvalidateRoom
  \/ InvalidateGlobal
  \/ InvalidateReload
  \/ InvalidateNotify
  \/ Return

SpecLock == Init /\ [][NextLock]_vars

\* the thread that holds the lock is scheduled: the body of a Register or an
\* Unregister that has taken the lock runs
SpecLockFair == SpecLock /\ WF_vars(RegisterBody) /\ WF_vars(UnregisterBody)

\* ============================================================ SliceRanges
\* the [2]int64 values the range engine is exercised with
RangeIdx == (-1)..MaxIdx

AllRanges == RangeIdx \X RangeIdx

\* the pairs Delta is exercised with
DeltaRanges == {<<0, 0>>, <<0, 1>>, <<1, 2>>}

\* the sequence handed to SliceInto: n distinct elements
SliceOf(n) == [i \in 1..n |-> 10 + (i - 1)]

Valid(r) == \A i \in 1..Len(r) : ~(r[i][2] < r[i][1]) /\ ~(r[i][1] < 0)

\* Delta, lines 20-27: the key set of the map built from a collection
MapKeys(r) == SeqToSet(r)

\* a Delta that ranges over the collection itself instead of the map built from it
RangeOrders_Slice(r) == {r}

\* Delta, lines 29 and 36: the orders in which the map of a collection is ranged over
RangeOrders(r) == PermSeqs(MapKeys(r))

\* Delta, lines 29-35 and 36-41, for one iteration order of each map
Delta(r, next, oldOrder, newOrder) ==
  [same |-> SelectSeq(oldOrder, LAMBDA p : p \in MapKeys(next)),
   removed |-> SelectSeq(oldOrder, LAMBDA p : p \notin MapKeys(next)),
   added |-> SelectSeq(newOrder, LAMBDA p : p \notin MapKeys(r))]

\* a cap that lets an index equal to the length through
Clamp_OffByOne(x, sliceLen) == IF x > sliceLen THEN sliceLen - 1 ELSE x

\* SliceInto, lines 53-58: one range cap
Clamp(x, sliceLen) == IF x >= sliceLen THEN sliceLen - 1 ELSE x

\* Subslicer.Subslice(i, j), a Go slice expression s[i:j]: it panics unless
\* 0 <= i <= j <= len(s)
Subslice(slice, i, j) ==
  IF 0 <= i /\ i <= j /\ j <= Len(slice)
    THEN [ok |-> TRUE, i |-> i, j |-> j, items |-> SubSeq(slice, i + 1, j)]
    ELSE [ok |-> FALSE, i |-> i, j |-> j, items |-> <<>>]

\* SliceInto, lines 49-61: one sub-sequence per range, in range order
SliceInto(r, slice) ==
  [k \in 1..Len(r) |->
     Subslice(slice, Clamp(r[k][1], Len(slice)), Clamp(r[k][2], Len(slice)) + 1)]

\* each behaviour of the range engine is one call on fresh inputs
FreshRange == rng = NoRng

RangeFrame == UNCHANGED dispVars

DoValid ==
  FreshRange /\ \E r \in SeqsUpTo(AllRanges, MaxRanges) :
    /\ RangeFrame
    /\ rng' = [NoRng EXCEPT !.op = "Valid", !.r = r, !.valid = Valid(r)]

DoDelta ==
  FreshRange /\ \E r \in SeqsUpTo(DeltaRanges, MaxRanges), next \in SeqsUpTo(DeltaRanges, MaxRanges) :
    \E oldOrder \in RangeOrders(r), newOrder \in RangeOrders(next) :
      LET d == Delta(r, next, oldOrder, newOrder)
      IN /\ RangeFrame
         /\ rng' = [NoRng EXCEPT !.op = "Delta", !.r = r, !.next = next, !.added = d.added,
                                 !.removed = d.removed, !.same = d.same]

\* SliceInto is called on collections that Valid accepts
DoSliceInto ==
  FreshRange /\ \E r \in {x \in SeqsUpTo(AllRanges, MaxRanges) : Valid(x)}, n \in 0..MaxLen :
    /\ RangeFrame
    /\ rng' = [NoRng EXCEPT !.op = "SliceInto", !.r = r, !.n = n,
                            !.result = SliceInto(r, SliceOf(n))]

NextRange ==
  \/ DoValid
  \/ DoDelta
  \/ DoSliceInto

SpecRange == Init /\ [][NextRange]_vars

\* ================================================================ claims
DispatchOps == {"OnNewEvent", "OnNewInitialRoomState", "OnEphemeralEvent", "OnReceipt"}

\* the poller is inside an OnNewEvent call, made directly or by the degraded
\* initial-state loop
IsEventDispatch ==
  \/ loc.op = "OnNewEvent"
  \/ loc.op = "OnNewInitialRoomState" /\ loc.path = "degrade"

CallsTo(userID) == {j \in 1..Len(calls) : calls[j].recv.owner = userID}

NoDuplicates(s) == \A i, j \in 1..Len(s) : i # j => s[i] # s[j]

\* the users whose tracked state for the room is exactly Invited
ExactlyInvited(t, roomID) == {u \in Users : u \in t.invited[roomID] /\ u \notin t.joined[roomID]}

\* C1: in every dispatch (an event of OnNewEvent or OnNewInitialRoomState, an
\* ephemeral event, a receipt) the global receiver's callback is never made
\* after another callback, and when the global receiver is registered and a
\* per-user receiver was called, the first callback is the global receiver's.
C1_GlobalFirst ==
  loc.op \in DispatchOps =>
    /\ \A j \in 2..Len(calls) : calls[j].slot # "global"
    /\ (/\ pc = "done"
        /\ userToReceiver[DispatcherAllUsers] # NoReceiver
        /\ \E j \in 1..Len(calls) : calls[j].recv.owner # DispatcherAllUsers)
         => /\ calls[1].slot = "global"
            /\ calls[1].recv = userToReceiver[DispatcherAllUsers]

C1_Witness ==
  /\ pc = "done" /\ loc.op = "OnReceipt"
  /\ Len(calls) = 3
  /\ calls[1].slot = "global" /\ calls[2].slot = "user"

\* C2: a join event for a user who was not joined reaches that user's receiver
\* with ForceInitial = TRUE; any event dispatched through OnNewEvent while a
\* user is already joined reaches that user with ForceInitial = FALSE.
C2_ForceInitialOnFirstJoin ==
  IsEventDispatch =>
    \A j \in 1..Len(calls) :
      LET c == calls[j]
          U == c.recv.owner
      IN U \in RealUsers =>
           /\ (loc.membership = "join" /\ loc.targetUser = U /\ U \notin loc.pre.joined[TheRoom])
                => c.ed.ForceInitial
           /\ U \in loc.pre.joined[TheRoom] => ~c.ed.ForceInitial

C2_Witness ==
  /\ pc = "done" /\ loc.op = "OnNewEvent"
  /\ loc.membership = "join" /\ loc.targetUser \in RealUsers
  /\ loc.targetUser \notin loc.pre.joined[TheRoom]
  /\ \E j \in CallsTo(loc.targetUser) : calls[j].ed.ForceInitial
  /\ \E j \in 1..Len(calls) : calls[j].slot = "user" /\ ~calls[j].ed.ForceInitial

\* C3: an invite event for a user who is not joined makes no callback on that
\* user's receiver, and the user is counted by NumInvitedUsersForRoom: the
\* count is that of the users invited before plus the target.
C3_InviteSuppressed ==
  (/\ IsEventDispatch
   /\ loc.membership = "invite"
   /\ loc.targetUser \in RealUsers
   /\ loc.targetUser \notin loc.pre.joined[TheRoom])
    => /\ CallsTo(loc.targetUser) = {}
       /\ loc.targetUser \in jrt.invited[TheRoom]
       /\ NumInvitedUsersForRoom(jrt, TheRoom)
            = Cardinality(loc.pre.invited[TheRoom] \cup {loc.targetUser})

C3_Witness ==
  /\ pc = "done" /\ loc.op = "OnNewEvent"
  /\ loc.membership = "invite" /\ loc.targetUser \in RealUsers
  /\ userToReceiver[loc.targetUser] # NoReceiver
  /\ loc.pre.joined[TheRoom] = RealUsers \ {loc.targetUser}
  /\ loc.pre.invited[TheRoom] = {}
  /\ NumInvitedUsersForRoom(jrt, TheRoom) = 1
  /\ Len(calls) = 2

\* C4: an OnInvalidateRoom call that finds no global receiver leaves the
\* tracker as it was before the call and makes no callback.
C4_InvalidateWithoutGlobalInert ==
  (loc.op = "OnInvalidateRoom" /\ loc.receiver = NoReceiver)
    => /\ jrt = loc.pre
       /\ calls = <<>>

C4_Witness ==
  /\ loc.op = "OnInvalidateRoom" /\ loc.receiver = NoReceiver
  /\ loc.joins # {} /\ loc.invites # {}
  /\ loc.joins # loc.pre.joined[TheRoom]
  /\ \A u \in RealUsers : userToReceiver[u] # NoReceiver

\* C5: an OnInvalidateRoom call that finds no global receiver returns normally
\* to its caller.
C5_InvalidateWithoutGlobalReturns ==
  (loc.op = "OnInvalidateRoom" /\ loc.receiver = NoReceiver) => pc # "panicked"

\* C6: when the OnRegistered hook returns an error, Register returns that error
\* and the receiver stays installed: ReceiverForUser returns it, and the
\* callbacks of a dispatch go to the receivers the registry holds.
C6_HookErrorKeepsReceiver ==
  /\ (cpc = "returned" /\ creq.op = "Register")
       => /\ cret = creq.hook
          /\ ReceiverForUser(creq.userID) = creq.r
  /\ (pc = "done" /\ loc.op \in DispatchOps)
       => \A j \in 1..Len(calls) : calls[j].recv = ReceiverForUser(calls[j].recv.owner)

C6_Witness ==
  /\ cpc = "returned" /\ creq.op = "Register" /\ creq.hook = "hookErr"
  /\ cret = "hookErr"
  /\ creq.userID \in RealUsers
  /\ ReceiverForUser(creq.userID) = creq.r

\* C7: a step of a dispatch that makes callbacks makes none for a user whose
\* registry entry is empty at that moment, also for a user the audience filter
\* had accepted, and the dispatch does not fail.
C7_UnregisteredNeverCalled ==
  [][(calls' # calls /\ loc'.op \in DispatchOps) =>
       /\ pc' # "panicked"
       /\ \A j \in 1..Len(calls') :
            /\ calls'[j].recv # NoReceiver
            /\ userToReceiver[calls'[j].recv.owner] = calls'[j].recv]_vars

C7_Witness ==
  /\ pc = "done" /\ loc.op = "OnNewEvent"
  /\ \E u \in SeqToSet(loc.userIDs) : userToReceiver[u] = NoReceiver /\ CallsTo(u) = {}
  /\ \E j \in 1..Len(calls) : calls[j].slot = "user"

\* C8: as sets of pairs, added and same make up next, removed and same make up
\* the receiver, added and removed share nothing, and no output holds a pair
\* twice.
C8_DeltaPartitions ==
  rng.op = "Delta" =>
    LET A == SeqToSet(rng.r)
        B == SeqToSet(rng.next)
        added == SeqToSet(rng.added)
        removed == SeqToSet(rng.removed)
        same == SeqToSet(rng.same)
    IN /\ added \cup same = B
       /\ removed \cup same = A
       /\ added \cap removed = {}
       /\ NoDuplicates(rng.added) /\ NoDuplicates(rng.removed) /\ NoDuplicates(rng.same)

C8_Witness ==
  /\ rng.op = "Delta"
  /\ ~NoDuplicates(rng.r)
  /\ rng.same # <<>> /\ rng.added # <<>>

\* C9: on a non-empty sequence of length n SliceInto returns one sub-sequence
\* per range, in range order, the k-th holding the elements at indices
\* min(start, n-1) .. min(end, n-1).
C9_SliceIntoClamps ==
  (rng.op = "SliceInto" /\ rng.n >= 1) =>
    /\ Len(rng.result) = Len(rng.r)
    /\ \A k \in 1..Len(rng.r) :
         LET lo == IF rng.r[k][1] < rng.n - 1 THEN rng.r[k][1] ELSE rng.n - 1
             hi == IF rng.r[k][2] < rng.n - 1 THEN rng.r[k][2] ELSE rng.n - 1
         IN /\ rng.result[k].ok
            /\ rng.result[k].items = [x \in 1..(hi - lo + 1) |-> 10 + lo + (x - 1)]

C9_Witness ==
  /\ rng.op = "SliceInto" /\ rng.n = 3
  /\ Len(rng.r) = 2
  /\ rng.r[1] = <<1, 3>> /\ rng.result[1].items = <<11, 12>>
  /\ rng.r[2] = <<0, 0>> /\ rng.result[2].items = <<10>>

\* the part of C10 that holds: the invite count is the number of users whose
\* state is exactly Invited; a membership event dispatched through OnNewEvent
\* leaves its target counted iff it is an invite; a reload leaves the given
\* invited users counted.
C10_Incremental ==
  /\ NumInvitedUsersForRoom(jrt, TheRoom) = Cardinality(ExactlyInvited(jrt, TheRoom))
  /\ (IsEventDispatch /\ loc.targetUser # "") =>
       /\ loc.membership \in {"join", "leave", "ban"} => loc.targetUser \notin jrt.invited[TheRoom]
       /\ loc.membership = "invite" =>
            NumInvitedUsersForRoom(jrt, TheRoom)
              = Cardinality(loc.pre.invited[TheRoom] \cup {loc.targetUser})
  /\ (loc.op = "OnInvalidateRoom" /\ pc \in {"inv_notify", "done"}) =>
       NumInvitedUsersForRoom(jrt, TheRoom) = Cardinality(loc.invites)

\* whether the last membership event a block holds for the user is a join, leave or ban
LeavesInvited(state, userID) ==
  \E i \in 1..Len(state) :
    /\ state[i].type = "m.room.member" /\ state[i].hasKey /\ state[i].stateKey = userID
    /\ state[i].membership \in {"join", "leave", "ban"}
    /\ \A k \in (i + 1)..Len(state) :
         ~(state[k].type = "m.room.member" /\ state[k].hasKey /\ state[k].stateKey = userID)

\* C10 (as amended): C10_Incremental; a leave or ban event of a block that
\* OnNewInitialRoomState takes in bulk does not change the count.
C10_InviteCountTracksInvited ==
  /\ C10_Incremental
  /\ (loc.op = "OnNewInitialRoomState" /\ loc.path = "bulk") =>
       jrt.invited[TheRoom]
         = (loc.pre.invited[TheRoom] \ BlockUsers(loc.state, "join"))
             \cup BlockUsers(loc.state, "invite")

C10_Witness ==
  /\ pc = "done" /\ loc.op = "OnNewEvent"
  /\ loc.membership = "ban"
  /\ loc.targetUser \in loc.pre.invited[TheRoom]
  /\ NumInvitedUsersForRoom(loc.pre, TheRoom) = 2
  /\ NumInvitedUsersForRoom(jrt, TheRoom) = 1

\* C10 (as stated): after membership events fed through OnNewEvent and
\* OnNewInitialRoomState, an invited user who then joins, leaves or is banned
\* is no longer counted.
C10_InviteCountAfterAnyMembership ==
  /\ C10_Incremental
  /\ (loc.op = "OnNewInitialRoomState" /\ loc.path = "bulk") =>
       \A u \in loc.pre.invited[TheRoom] :
         LeavesInvited(loc.state, u) => u \notin jrt.invited[TheRoom]

\* C11: in an OnNewEvent dispatch no per-user receiver other than the target's
\* sees ForceInitial = TRUE, the global receiver is called with ForceInitial =
\* FALSE, and the EventData the global receiver was handed is the same at the
\* end of the dispatch as when it was handed over.
C11_ForceInitialOnlyForTarget ==
  (IsEventDispatch /\ loc.targetUser # DispatcherAllUsers) =>
    \A j \in 1..Len(calls) :
      /\ (calls[j].slot # "global" /\ calls[j].recv.owner # loc.targetUser)
           => ~calls[j].ed.ForceInitial
      /\ calls[j].slot = "global"
           => /\ ~calls[j].ed.ForceInitial
              /\ calls[j].shared => loc.ed = calls[j].ed

\* C12: in an OnNewEvent dispatch no user's receiver is called twice; a user
\* with a receiver who is joined after the membership change and passed the
\* audience filter, or who is the target of a membership event other than an
\* invite, is called exactly once.
C12_ExactlyOnce ==
  (IsEventDispatch /\ pc = "done") =>
    \A U \in RealUsers :
      /\ Cardinality(CallsTo(U)) <= 1
      /\ (/\ userToReceiver[U] # NoReceiver
          /\ \/ U \in jrt.joined[TheRoom] /\ U \in SeqToSet(loc.userIDs)
             \/ U = loc.targetUser /\ loc.membership # "invite")
           => Cardinality(CallsTo(U)) = 1

C12_Witness ==
  /\ pc = "done" /\ loc.op = "OnNewEvent"
  /\ loc.membership = "leave" /\ loc.targetUser \in RealUsers
  /\ loc.targetUser \in loc.pre.joined[TheRoom]
  /\ \E j \in CallsTo(loc.targetUser) : calls[j].slot = "fallback"
  /\ \E U \in RealUsers \ {loc.targetUser} :
       U \in jrt.joined[TheRoom] /\ Cardinality(CallsTo(U)) = 1

\* C13: every event dispatched through OnNewEvent reaches a registered global
\* receiver exactly once.
C13_GlobalExactlyOnce ==
  (/\ IsEventDispatch /\ pc = "done" /\ loc.ed # NoEventData
   /\ userToReceiver[DispatcherAllUsers] # NoReceiver)
    => Cardinality(CallsTo(DispatcherAllUsers)) = 1

\* the place of a callback in the order of an invalidation
FnRank(fn) ==
  CASE fn = "OnInvalidateRoom" -> 0
    [] fn = "OnLeftRoom" -> 1
    [] fn = "OnInvite" -> 2
    [] fn = "OnNewEvent" -> 3
    [] OTHER -> 4

\* the users of the map an invalidation callback is made for
MapFor(fn) ==
  CASE fn = "OnLeftRoom" -> loc.leaves
    [] fn = "OnInvite" -> loc.invites
    [] fn = "OnNewEvent" -> loc.joins
    [] OTHER -> {}

\* C14: an OnInvalidateRoom call that found the global receiver first makes the
\* global room-invalidate callback, then reloads the tracker from the keys of
\* joins and invites, then makes the left-room, the invite and the new-event
\* callbacks in that order, each for a user of the matching map who has a
\* receiver, and for every such user; nobody else is called.
C14_InvalidateOrder ==
  (loc.op = "OnInvalidateRoom" /\ loc.receiver # NoReceiver /\ Running) =>
    /\ pc = "inv_global" => calls = <<>> /\ jrt = loc.pre
    /\ pc = "inv_reload" => Len(calls) = 1 /\ jrt = loc.pre
    /\ pc = "inv_notify" => Len(calls) = 1
    /\ pc \in {"inv_notify", "done"}
         => /\ jrt.joined[TheRoom] = loc.joins
            /\ jrt.invited[TheRoom] = loc.invites
    /\ calls # <<>>
         => calls[1] = Call(loc.receiver, "OnInvalidateRoom", "global", NoEventData, FALSE)
    /\ \A j \in 2..Len(calls) :
         /\ FnRank(calls[j - 1].fn) <= FnRank(calls[j].fn)
         /\ calls[j].recv.owner \in MapFor(calls[j].fn)
         /\ calls[j].recv # NoReceiver
         /\ calls[j].recv = userToReceiver[calls[j].recv.owner]
    /\ pc = "done"
         => \A fn \in {"OnLeftRoom", "OnInvite", "OnNewEvent"} :
              \A U \in MapFor(fn) :
                userToReceiver[U] # NoReceiver
                  => Cardinality({j \in CallsTo(U) : calls[j].fn = fn}) = 1

C14_Witness ==
  /\ pc = "done" /\ loc.op = "OnInvalidateRoom"
  /\ loc.leaves # {} /\ loc.joins # {}
  /\ jrt # loc.pre
  /\ Len(calls) = 3
  /\ calls[2].fn = "OnLeftRoom" /\ calls[3].fn = "OnNewEvent"

\* the tracker after the events have gone through OnNewEvent one by one
RECURSIVE Replay(_, _)
Replay(t, events) ==
  IF events = <<>> THEN t
  ELSE Replay(UpdateTracker(t, Head(events), TheRoom, 0).jrt, Tail(events))

\* C15: OnNewInitialRoomState for a room that has joined users takes the
\* degraded path; the events handled so far are a prefix of the block, each
\* went through OnNewEvent with nid 0, the tracker is what those calls made
\* of it, and the call does not crash.
C15_DegradeReplays ==
  /\ (loc.op = "OnNewInitialRoomState" /\ loc.entry.joined[TheRoom] # {})
       => loc.path = "degrade"
  /\ (loc.op = "OnNewInitialRoomState" /\ loc.path = "degrade")
       => LET k == Len(loc.state) - Len(loc.todo)
          IN /\ pc # "panicked"
             /\ loc.entry.joined[TheRoom] # {}
             /\ loc.todo = SubSeq(loc.state, k + 1, Len(loc.state))
             /\ jrt = Replay(loc.entry, SubSeq(loc.state, 1, k))
             /\ k > 0 => loc.pre = Replay(loc.entry, SubSeq(loc.state, 1, k - 1))
             /\ k > 0 => /\ loc.ed.NID = 0
                         /\ loc.ed.EventType = loc.state[k].type
                         /\ loc.ed.StateKey = loc.state[k].stateKey
                         /\ loc.ed.membership = loc.state[k].membership
             /\ \A j \in 1..Len(calls) :
                  /\ calls[j].fn = "OnNewEvent"
                  /\ calls[j].ed.NID = 0
                  /\ calls[j].ed.EventType = loc.ed.EventType
                  /\ calls[j].ed.StateKey = loc.ed.StateKey

C15_Witness ==
  /\ pc = "done" /\ loc.op = "OnNewInitialRoomState" /\ loc.path = "degrade"
  /\ Len(loc.state) = 2 /\ loc.state[1] # loc.state[2]
  /\ jrt # loc.entry
  /\ Len(calls) >= 2

\* C16: the step of a Dispatcher operation that reads the registry is taken
\* only while no Register or Unregister is inside its critical section.
C16_RegistryReadsLocked ==
  [][(loc'.op = "OnInvalidateRoom" /\ loc.op # "OnInvalidateRoom") => ~RacingWrite]_vars

\* C17: Register runs the hook with the exclusive lock held: a hook that
\* re-enters the Dispatcher leaves Register blocked, and blocked for ever, with
\* the lock held; a hook that does not re-enter lets Register return with the
\* lock released, in every execution in which the process stays alive.
C17_HookUnderLock ==
  /\ [](cpc = "blocked" => userToReceiverMu = "client" /\ creq.hook = "reenter")
  /\ [][cpc = "blocked" => cpc' = "blocked" /\ userToReceiverMu' = "client"]_vars
  /\ [][(cpc = "Register" /\ cpc' # "Register")
          => IF creq.hook = "reenter"
               THEN cpc' = "blocked" /\ userToReceiverMu' = "client"
               ELSE cpc' = "returned" /\ userToReceiverMu' = "free"]_vars
  /\ (cpc = "Register" /\ creq.hook # "reenter")
       ~> ((cpc = "returned" /\ userToReceiverMu = "free") \/ ~Running)

C17_Witness ==
  /\ cpc = "blocked" /\ userToReceiverMu = "client"
  /\ creq.op = "Register" /\ creq.hook = "reenter"
  /\ userToReceiver[creq.userID] = creq.r

\* C18: every EventData an OnNewEvent dispatch delivers carries the number of
\* all joined users of the room after the event's membership change, whether
\* or not they have a receiver.
C18_JoinCountIsFull ==
  IsEventDispatch =>
    LET after == IF loc.targetUser # ""
                   THEN ApplyMembership(loc.pre, loc.membership, loc.targetUser, TheRoom)
                   ELSE loc.pre
    IN /\ jrt = after
       /\ \A j \in 1..Len(calls) :
            calls[j].ed.JoinCount = Cardinality(after.joined[TheRoom])

C18_Witness ==
  /\ pc = "done" /\ loc.op = "OnNewEvent"
  /\ loc.membership = "join" /\ loc.targetUser \notin loc.pre.joined[TheRoom]
  /\ jrt.joined[TheRoom] = RealUsers
  /\ \E U \in RealUsers : userToReceiver[U] = NoReceiver
  /\ Len(calls) = 1 /\ calls[1].slot = "user"
  /\ calls[1].ed.JoinCount = 2

\* C19: on the bulk path the tracker holds the block's joined and invited
\* users before anything is dispatched; the events are dispatched in block
\* order, each with the join and invite counts of the tracker after the whole
\* block, to the global receiver first and then to the joined users who have a
\* receiver.
C19_BulkDispatch ==
  (loc.op = "OnNewInitialRoomState" /\ loc.path = "bulk") =>
    LET k == Len(loc.state) - Len(loc.todo)
        joined == BlockUsers(loc.state, "join") \ BlockUsers(loc.state, "invite")
        invited == (loc.entry.invited[TheRoom] \ BlockUsers(loc.state, "join"))
                     \cup BlockUsers(loc.state, "invite")
    IN /\ loc.entry.joined[TheRoom] = {}
       /\ jrt.joined[TheRoom] = joined
       /\ jrt.invited[TheRoom] = invited
       /\ pc = "filter" => calls = <<>> /\ k = 0
       /\ \A i \in 1..Len(loc.todo) : loc.todo[i] = NewEventData(loc.state[k + i], TheRoom, 0)
       /\ calls # <<>> => k >= 1
       /\ \A j \in 1..Len(calls) :
            /\ calls[j].fn = "OnNewEvent"
            /\ calls[j].ed = [NewEventData(loc.state[k], TheRoom, 0) EXCEPT
                                !.JoinCount = Cardinality(joined),
                                !.InviteCount = Cardinality(invited)]
            /\ calls[j].slot = "global" => j = 1
            /\ calls[j].slot # "global"
                 => /\ calls[j].slot = "user"
                    /\ calls[j].recv.owner \in joined
                    /\ calls[j].recv.owner \in SeqToSet(loc.userIDs)
       /\ (pc = "done" /\ k >= 1)
            => /\ userToReceiver[DispatcherAllUsers] # NoReceiver
                    => calls[1] = Call(userToReceiver[DispatcherAllUsers], "OnNewEvent",
                                       "global", calls[1].ed, TRUE)
               /\ \A U \in SeqToSet(loc.userIDs) :
                    userToReceiver[U] # NoReceiver => Cardinality(CallsTo(U)) = 1

C19_Witness ==
  /\ pc = "done" /\ loc.op = "OnNewInitialRoomState" /\ loc.path = "bulk"
  /\ loc.state = <<Member("@v", "join"), Member("@u", "invite")>>
  /\ Len(calls) = 2
  /\ calls[1].slot = "global" /\ calls[2].recv.owner = "@v"
  /\ calls[2].ed.JoinCount = 1 /\ calls[2].ed.InviteCount = 1
  /\ calls[2].ed.StateKey = "@u"

\* C20: the bounds SliceInto hands to Subslice are never below 0 and lie in
\* the sequence, the empty sequence included: 0 <= start <= end + 1 <= len.
C20_SliceBoundsInRange ==
  rng.op = "SliceInto" =>
    \A k \in 1..Len(rng.result) :
      /\ 0 <= rng.result[k].i
      /\ 0 <= rng.result[k].j - 1
      /\ rng.result[k].i <= rng.result[k].j
      /\ rng.result[k].j <= rng.n

====
